---- MODULE Spec2Model ----
(***************************************************************************)
(* Model of the HTTP handler of github-contributions-api, src/index.ts:    *)
(* GET /v4/:username with its validation, the resolved query, the cache    *)
(* key, the process-wide memory-cache and the awaited pipeline call.       *)
(*                                                                         *)
(* The handler is an async function on a single-threaded event loop: the   *)
(* code from line 62 up to the await of line 97 runs as one step, and the  *)
(* continuation after the await (lines 98-113) runs as a second step once  *)
(* the pipeline's promise settles.  Other requests and the clock may act   *)
(* between the two.                                                        *)
(***************************************************************************)
EXTENDS Integers, Sequences, FiniteSets, TLC

\* ---------------------------------------------------------------- bounds
NumReq == 2        \* request slots (requests received during one run)
MaxY == 2          \* occurrences of the query parameter y in one request
MaxTicks == 3      \* advances of the clock (half an hour each) during one run

\* ------------------------------------------------------ program constants
TTL == 3600000     \* 1000 * 3600, the third argument of cache.put (line 98)

Requests == 1..NumReq

\* --------------------------------------------------------- query strings
\* A y token is a string, modelled as a sequence of one-character strings so
\* that the regular expression and parseInt can look at its characters.
Digits == {"0", "1", "2", "3", "4", "5", "6", "7", "8", "9"}

DigitVal(c) ==
    CASE c = "0" -> 0 [] c = "1" -> 1 [] c = "2" -> 2 [] c = "3" -> 3
      [] c = "4" -> 4 [] c = "5" -> 5 [] c = "6" -> 6 [] c = "7" -> 7
      [] c = "8" -> 8 [] c = "9" -> 9

TokAll == <<"a", "l", "l">>
TokLast == <<"l", "a", "s", "t">>

\* The tokens requests are built from: two years, a year written with a
\* leading zero, the two keywords, and three strings that are none of these
\* (parseInt reads 2 from "2x" and 21 from " 21"; the third is the empty string).
Tokens ==
    { <<"2", "1">>, <<"2", "2">>, <<"0", "2", "1">>, TokAll, TokLast,
      <<"2", "x">>, <<" ", "2", "1">>, <<>> }

RECURSIVE SeqsUpTo(_, _)
SeqsUpTo(S, n) ==
    IF n = 0 THEN { <<>> }
    ELSE LET shorter == SeqsUpTo(S, n - 1)
         IN  shorter \cup { Append(s, x) : s \in { t \in shorter : Len(t) = n - 1 }, x \in S }

\* req.query.y as the list of its occurrences: none (undefined), one (a
\* string) or several (an array); lines 72-74 turn the three into an array.
Selectors == SeqsUpTo(Tokens, MaxY)

\* req.query.format as the list of its occurrences: <<>> is undefined, one
\* occurrence is that string, two are an array of strings.
Formats == { <<>>, <<"nested">>, <<"">>, <<"weekly">>, <<"nested", "nested">> }

Usernames == { "u", "u-v" }

Inputs == [ username : Usernames, format : Formats, y : Selectors ]

\* ------------------------------------------------------- validation (62-80)
\* JavaScript truthiness of req.query.format: undefined and '' are falsy, any
\* other string and any array are truthy.
Truthy(format) == Len(format) >= 2 \/ (Len(format) = 1 /\ format[1] # "")

\* req.query.format !== 'nested'
NotNested(format) == ~(Len(format) = 1 /\ format[1] = "nested")

\* Line 65: the condition under which the handler answers 400 for the format.
FormatRejected(format) == Truthy(format) /\ NotNested(format)

\* /^\d+$/.test(y): one or more characters, every one an ASCII digit.
IsDigits(y) == Len(y) >= 1 /\ \A i \in 1..Len(y) : y[i] \in Digits

\* The regular expression without its anchors: any digit makes a token pass.
BadToken_Unanchored(y) ==
    (~\E i \in 1..Len(y) : y[i] \in Digits) /\ y # TokAll /\ y # TokLast

\* Line 76: the predicate of years.some(...).
BadToken(y) == ~IsDigits(y) /\ y # TokAll /\ y # TokLast

YRejected(years) == \E i \in 1..Len(years) : BadToken(years[i])

\* ------------------------------------------------- resolved query (82-87)
\* A JavaScript number as parseInt returns it: NaN, or an integer.
NaN == [nan |-> TRUE, val |-> 0]
Num(n) == [nan |-> FALSE, val |-> n]

WhiteSpace == {" "}

RECURSIVE DigitPrefix(_, _, _)
\* The value of the longest prefix of digits of s from position i on, acc
\* being the value of the digits already read.
DigitPrefix(s, i, acc) ==
    IF i <= Len(s) /\ s[i] \in Digits
    THEN DigitPrefix(s, i + 1, acc * 10 + DigitVal(s[i]))
    ELSE acc

RECURSIVE SkipWhite(_, _)
SkipWhite(s, i) == IF i <= Len(s) /\ s[i] \in WhiteSpace THEN SkipWhite(s, i + 1) ELSE i

\* parseInt(y, 10): leading white space is skipped, a sign is read, then the
\* longest run of digits; NaN when that run is empty.
parseInt(y) ==
    LET i == SkipWhite(y, 1)
        neg == i <= Len(y) /\ y[i] = "-"
        j == IF i <= Len(y) /\ y[i] \in {"-", "+"} THEN i + 1 ELSE i
    IN  IF j <= Len(y) /\ y[j] \in Digits
        THEN Num((IF neg THEN -1 ELSE 1) * DigitPrefix(y, j, 0))
        ELSE NaN

isFinite(x) == ~x.nan

Includes(s, x) == \E i \in 1..Len(s) : s[i] = x

\* Line 83: years.map(y => parseInt(y, 10)).filter(isFinite)
QueryYears(years) ==
    LET parsed == [i \in 1..Len(years) |-> parseInt(years[i])]
        finite == SelectSeq(parsed, isFinite)
    IN  [i \in 1..Len(finite) |-> finite[i].val]

\* The query with 'last' taken for a request of every year as well.
ParsedQuery_LastFetchesAll(years, format) ==
    [ years |-> QueryYears(years),
      fetchAll |-> Includes(years, TokAll) \/ Includes(years, TokLast) \/ Len(years) = 0,
      lastYear |-> Includes(years, TokLast),
      format |-> format ]

\* Lines 82-87: the ParsedQuery object.
ParsedQuery(years, format) ==
    [ years |-> QueryYears(years),
      fetchAll |-> Includes(years, TokAll) \/ Len(years) = 0,
      lastYear |-> Includes(years, TokLast),
      format |-> format ]

\* ------------------------------------------------------ cache key (89)
RECURSIVE JoinNumbers(_, _)
JoinNumbers(ns, i) ==
    IF i > Len(ns) THEN ""
    ELSE (IF i > 1 THEN "," ELSE "") \o ToString(ns[i]) \o JoinNumbers(ns, i + 1)

BoolText(b) == IF b THEN "true" ELSE "false"

\* JSON.stringify(query): the properties in insertion order, a property whose
\* value is undefined left out.
JSONStringify(query) ==
    "{\"years\":[" \o JoinNumbers(query.years, 1) \o "],\"fetchAll\":"
      \o BoolText(query.fetchAll) \o ",\"lastYear\":" \o BoolText(query.lastYear)
      \o (IF Len(query.format) = 0 THEN ""
          ELSE ",\"format\":\"" \o query.format[1] \o "\"")
      \o "}"

\* A key made of the query alone.
CacheKey_NoUsername(username, query) == JSONStringify(query)

\* Line 89: `${username}-${JSON.stringify(query)}`
CacheKey(username, query) == username \o "-" \o JSONStringify(query)

\* ------------------------------------------------------------------ state
VARIABLES
    req,      \* per request slot: the request, the handler's locals, its response
    cache,    \* the memory-cache store: key -> [value, expire]
    now       \* Date.now(), in milliseconds

vars == <<req, cache, now>>

NoQuery == [years |-> <<>>, fetchAll |-> FALSE, lastYear |-> FALSE, format |-> <<>>]
NoBody == [kind |-> "none"]

\* A request that has not arrived yet.  calls counts the invocations of
\* fetchContributionsForQuery made for the request; saw is what cache.get
\* found ("absent", "expired" or "live") and storedAt the time of the
\* request's cache.put, "none" or -1 while there was none; threw is the
\* constructor of the error the pipeline call rejected with; sent counts the
\* responses written for the request (res.send, res.json); tasks holds the
\* per-year retrievals of the pipeline call, where they are followed.
NewRequest ==
    [ pc |-> "new", username |-> "", format |-> <<>>, y |-> <<>>,
      query |-> NoQuery, key |-> "", status |-> 0, body |-> NoBody,
      calls |-> 0, saw |-> "none", storedAt |-> -1, threw |-> "none",
      sent |-> 0, tasks |-> <<>> ]

\* ------------------------------------------------ pipeline (fetch.ts, errors.ts)
\* The data of the source service changes over time: two snapshots.
Versions == {1, 2}

\* What fetchContributionsForQuery(username, query) resolves to.
PipelineResult(username, query, v) ==
    [kind |-> "data", username |-> username, query |-> query, version |-> v]

\* What it can reject with.
ErrorConstructors == {"UserNotFoundError", "RetrievalError", "ParseError"}

PipelineError(c, username) ==
    [constructor |-> c, message |-> c \o " for " \o username]

\* --------------------------------------------------------- responses
ErrorBody(message) == [kind |-> "error", error |-> message]

FormatMessage == "Query parameter 'format' must be 'nested' or undefined"
YMessage == "Query parameter 'y' must be an integer, 'all' or 'last'"

\* Lines 108-112 and the error handler, lines 119-129.
UnableMessage(username, error) ==
    "Unable to fetch contribution data of '" \o username \o "': " \o error.message \o "."

\* The switch with the retrieval failure taken for an unknown user as well.
RejectStatus_Retrieval404(error) ==
    IF error.constructor \in {"UserNotFoundError", "RetrievalError"} THEN 404 ELSE 500

\* Lines 102-113: the switch on error.constructor.
RejectStatus(error) == IF error.constructor = "UserNotFoundError" THEN 404 ELSE 500

RejectBody(username, error) ==
    IF error.constructor = "UserNotFoundError"
    THEN ErrorBody(error.message)
    ELSE ErrorBody(UnableMessage(username, error))

\* ------------------------------------------------------ memory-cache
\* A cache that never lets a record expire.
Live_Forever(entry, t) == TRUE

\* cache.get: a record is returned while record.expire >= Date.now().
Live(entry, t) == entry.expire >= t

\* The lookup made under a key no record is ever stored under.
Hit_Never(c, key, t) == FALSE

\* Line 92: cached !== null.
Hit(c, key, t) == key \in DOMAIN c /\ Live(c[key], t)

Without(c, key) == [k \in DOMAIN c \ {key} |-> c[k]]

\* A read that renews the record it returns (a sliding expiry).
AfterGet_Renews(c, key, t) ==
    IF key \notin DOMAIN c THEN c
    ELSE IF Live(c[key], t) THEN [c EXCEPT ![key].expire = t + TTL]
    ELSE Without(c, key)

\* The store after cache.get(key): an expired record is deleted by the read.
AfterGet(c, key, t) == IF key \in DOMAIN c /\ ~Live(c[key], t) THEN Without(c, key) ELSE c

\* The time to live given in seconds where milliseconds are expected.
NewEntry_Seconds(value, t) == [value |-> value, expire |-> t + 3600]

\* Line 98: cache.put(key, response, 1000 * 3600).
NewEntry(value, t) == [value |-> value, expire |-> t + TTL]

AfterPut(c, key, value, t) ==
    [k \in DOMAIN c \cup {key} |-> IF k = key THEN NewEntry(value, t) ELSE c[k]]

\* ------------------------------------------------------------ actions
Init ==
    /\ req = [r \in Requests |-> NewRequest]
    /\ cache = << >>
    /\ now = 0

\* What cache.get(key) finds at time t.
Seen(c, key, t) ==
    IF key \notin DOMAIN c THEN "absent" ELSE IF Live(c[key], t) THEN "live" ELSE "expired"

\* Lines 62-97: the handler from its start to its first response or to the
\* await of the pipeline call.
Handled(in, c, t) ==
    LET base == [NewRequest EXCEPT !.username = in.username, !.format = in.format, !.y = in.y]
        query == ParsedQuery(in.y, in.format)
        key == CacheKey(in.username, query)
        looked == [base EXCEPT !.query = query, !.key = key, !.saw = Seen(c, key, t)]
    IN  IF FormatRejected(in.format)
        THEN [base EXCEPT !.pc = "done", !.status = 400, !.body = ErrorBody(FormatMessage),
                          !.sent = 1]
        ELSE IF YRejected(in.y)
        THEN [base EXCEPT !.pc = "done", !.status = 400, !.body = ErrorBody(YMessage),
                          !.sent = 1]
        ELSE IF Hit(c, key, t)
        THEN [looked EXCEPT !.pc = "done", !.status = 200, !.body = c[key].value,
                            !.sent = 1]
        ELSE [looked EXCEPT !.pc = "awaiting", !.calls = 1]

Handle(r, in) ==
    /\ req[r].pc = "new"
    /\ IF r = 1 THEN TRUE ELSE req[r - 1].pc # "new"
    /\ req' = [req EXCEPT ![r] = Handled(in, cache, now)]
    /\ cache' = IF req'[r].key # "" THEN AfterGet(cache, req'[r].key, now) ELSE cache
    /\ UNCHANGED now

\* Lines 98-100: the pipeline's promise is fulfilled.
Resolve(r, v) ==
    /\ req[r].pc = "awaiting"
    /\ LET response == PipelineResult(req[r].username, req[r].query, v)
       IN  /\ cache' = AfterPut(cache, req[r].key, response, now)
           /\ req' = [req EXCEPT ![r].pc = "done", ![r].status = 200, ![r].body = response,
                                 ![r].storedAt = now, ![r].sent = req[r].sent + 1]
    /\ UNCHANGED now

\* The failure stored in the cache under the request's key.
Reject_NegativeCache(r, c) ==
    /\ req[r].pc = "awaiting"
    /\ LET error == PipelineError(c, req[r].username)
       IN  /\ req' = [req EXCEPT ![r].pc = "done", ![r].status = RejectStatus(error),
                                 ![r].body = RejectBody(req[r].username, error),
                                 ![r].threw = c, ![r].sent = req[r].sent + 1]
           /\ cache' = AfterPut(cache, req[r].key, RejectBody(req[r].username, error), now)
    /\ UNCHANGED now

\* The case of UserNotFoundError without its return: the 404 is written and
\* the default case then hands the error to the error handler, which writes
\* a second response.
Reject_FallThrough(r, c) ==
    /\ req[r].pc = "awaiting"
    /\ LET error == PipelineError(c, req[r].username)
       IN  req' = [req EXCEPT ![r].pc = "done", ![r].status = RejectStatus(error),
                              ![r].body = RejectBody(req[r].username, error),
                              ![r].threw = c,
                              ![r].sent = req[r].sent
                                  + (IF c = "UserNotFoundError" THEN 2 ELSE 1)]
    /\ UNCHANGED <<cache, now>>

\* A catch block that answers with what was retrieved and stores it.
Reject_BestEffort(r, c) ==
    /\ req[r].pc = "awaiting"
    /\ LET partial == PipelineResult(req[r].username, req[r].query, 1)
       IN  /\ cache' = AfterPut(cache, req[r].key, partial, now)
           /\ req' = [req EXCEPT ![r].pc = "done", ![r].status = 200, ![r].body = partial,
                                 ![r].threw = c, ![r].sent = req[r].sent + 1]
    /\ UNCHANGED now

\* Lines 101-113 and 119-129: the pipeline's promise is rejected.
Reject(r, c) ==
    /\ req[r].pc = "awaiting"
    /\ LET error == PipelineError(c, req[r].username)
       IN  req' = [req EXCEPT ![r].pc = "done", ![r].status = RejectStatus(error),
                              ![r].body = RejectBody(req[r].username, error),
                              ![r].threw = c, ![r].sent = req[r].sent + 1]
    /\ UNCHANGED <<cache, now>>

\* The timer cache.put sets: the record is deleted once its time has passed.
TimerFires(key) ==
    /\ key \in DOMAIN cache
    /\ now >= cache[key].expire
    /\ cache' = Without(cache, key)
    /\ UNCHANGED <<req, now>>

\* Time passes, half an hour at a time: a record is read at the ages of 0,
\* 1/2, 1 (the last moment it is returned), 3/2, ... hours.
HalfHour == TTL \div 2

Ticks == now \div HalfHour

Tick ==
    /\ Ticks < MaxTicks
    /\ now' = now + HalfHour
    /\ UNCHANGED <<req, cache>>

\* The requests of the concurrent runs: one selector in three spellings, the
\* other format, the other user, and a format that is refused.
Y21 == <<"2", "1">>
Y22 == <<"2", "2">>

CoreInputs ==
    { [username |-> "u", format |-> <<>>, y |-> <<Y21, Y22>>],
      [username |-> "u", format |-> <<>>, y |-> <<Y22, Y21>>],
      [username |-> "u", format |-> <<>>, y |-> <<Y21, Y22, Y21>>],
      [username |-> "u", format |-> <<"nested">>, y |-> <<Y21, Y22>>],
      [username |-> "u-v", format |-> <<>>, y |-> <<Y21, Y22>>],
      [username |-> "u", format |-> <<"weekly">>, y |-> <<Y21, Y22>>] }

Next ==
    \/ \E r \in Requests, in \in CoreInputs : Handle(r, in)
    \/ \E r \in Requests, v \in Versions : Resolve(r, v)
    \/ \E r \in Requests, c \in ErrorConstructors : Reject(r, c)
    \/ \E key \in DOMAIN cache : TimerFires(key)
    \/ Tick

Spec == Init /\ [][Next]_vars

\* One request, drawn from every username, format and selector of the bounds.
NextResolve ==
    \/ \E in \in Inputs : Handle(1, in)
    \/ \E v \in Versions : Resolve(1, v)
    \/ \E c \in ErrorConstructors : Reject(1, c)

SpecResolve == Init /\ [][NextResolve]_vars

\* ------------------------------------------- the pipeline's per-year join
\* The years the source lists for a user, found on the default calendar page
\* when the query names no year.
DiscoveredYears == <<21, 22>>

\* One retrieval (and parse) per year of the request.
TaskYears(query) == IF query.years = <<>> THEN DiscoveredYears ELSE query.years

\* The pipeline call issues its retrievals, all at once.
FanOut(r) ==
    /\ req[r].pc = "awaiting"
    /\ req[r].tasks = <<>>
    /\ req' = [req EXCEPT ![r].tasks = [i \in 1..Len(TaskYears(req[r].query)) |-> "pending"]]
    /\ UNCHANGED <<cache, now>>

\* One year's retrieval and parse end, well ("ok") or with an error; no
\* retrieval is cancelled, so this may happen after the request was answered.
YearSettles(r, i, outcome) ==
    /\ i \in 1..Len(req[r].tasks)
    /\ req[r].tasks[i] = "pending"
    /\ req' = [req EXCEPT ![r].tasks[i] = outcome]
    /\ UNCHANGED <<cache, now>>

\* The single wait point: fulfilled once every year has ended well.
JoinResolve(r, v) ==
    /\ req[r].tasks # <<>>
    /\ \A i \in 1..Len(req[r].tasks) : req[r].tasks[i] = "ok"
    /\ Resolve(r, v)

\* The single wait point: rejected with the error of a year that failed,
\* without waiting for the years still pending.
JoinReject(r, c) ==
    /\ \E i \in 1..Len(req[r].tasks) : req[r].tasks[i] = c
    /\ Reject(r, c)

\* The requests of the runs that follow the retrievals: two explicit years,
\* and no year given (every discovered year).
JoinInputs ==
    { [username |-> "u", format |-> <<>>, y |-> <<Y21, Y22>>],
      [username |-> "u", format |-> <<>>, y |-> <<>>] }

NextJoin ==
    \/ \E r \in Requests, in \in JoinInputs : Handle(r, in)
    \/ \E r \in Requests : FanOut(r)
    \/ \E r \in Requests, o \in {"ok"} \cup ErrorConstructors :
          \E i \in 1..Len(req[r].tasks) : YearSettles(r, i, o)
    \/ \E r \in Requests, v \in Versions : JoinResolve(r, v)
    \/ \E r \in Requests, c \in ErrorConstructors : JoinReject(r, c)

SpecJoin == Init /\ [][NextJoin]_vars

\* ================================================================ claims
Range(s) == { s[i] : i \in 1..Len(s) }

Arrived(r) == req[r].pc # "new"

\* The request passed both validations: the handler built its query and key.
Resolved(r) == Arrived(r) /\ req[r].key # ""

\* A selector token as section 6 of the specification defines it: an integer
\* year written in decimal digits, `all`, or `last`.
SelectorToken(tok) ==
    \/ tok = <<"a", "l", "l">>
    \/ tok = <<"l", "a", "s", "t">>
    \/ Len(tok) >= 1 /\ \A i \in 1..Len(tok) : tok[i] \in {"0", "1", "2", "3", "4", "5", "6", "7", "8", "9"}

ValidSelector(y) == \A i \in 1..Len(y) : SelectorToken(y[i])

FormatPresent(format) == Len(format) >= 1

\* C1: every request whose format parameter is present and different from
\* 'nested' is answered 400 with an {error} body, and the pipeline is not
\* invoked for it, whatever its y tokens are.
C1_BadFormatIs400 ==
    \A r \in Requests :
        (Arrived(r) /\ FormatPresent(req[r].format) /\ req[r].format # <<"nested">>)
            => /\ req[r].pc = "done"
               /\ req[r].status = 400
               /\ req[r].body.kind = "error"
               /\ req[r].calls = 0

\* The same claim for the formats the handler does refuse: present, not
\* 'nested' and not the empty string.
C1_RefusedFormatIs400 ==
    \A r \in Requests :
        (Arrived(r) /\ FormatPresent(req[r].format) /\ req[r].format # <<"nested">>
                    /\ req[r].format # <<"">>)
            => /\ req[r].pc = "done"
               /\ req[r].status = 400
               /\ req[r].body.kind = "error"
               /\ req[r].calls = 0

\* A request with the empty format parameter went on to the pipeline.
C1_EmptyFormatAccepted ==
    \E r \in Requests : req[r].format = <<"">> /\ req[r].calls = 1

\* C2: a request with at least one y token that is neither a string of
\* digits, nor 'all', nor 'last' is answered 400 with an {error} body, before
\* the cache is read or the pipeline invoked, and no query is resolved from it.
C2_BadTokenIs400 ==
    \A r \in Requests :
        (Arrived(r) /\ ~ValidSelector(req[r].y))
            => /\ req[r].pc = "done"
               /\ req[r].status = 400
               /\ req[r].body.kind = "error"
               /\ req[r].calls = 0
               /\ req[r].saw = "none"
               /\ req[r].key = ""
               /\ req[r].query = NoQuery

\* A request of an accepted format with a good and a bad token ("2x", from
\* which parseInt would read 2) was refused for its y parameter.
C2_Witness ==
    \E r \in Requests :
        /\ req[r].pc = "done"
        /\ ~FormatRejected(req[r].format)
        /\ Len(req[r].y) = 2
        /\ SelectorToken(req[r].y[1])
        /\ req[r].y[2] = <<"2", "x">>
        /\ req[r].status = 400
        /\ req[r].body = ErrorBody(YMessage)

\* C3: for every valid selector the resolved query has fetchAll = true iff
\* the selector is empty or contains 'all', and lastYear = true iff it
\* contains 'last'; the empty selector resolves to fetchAll with years = [],
\* and a selector with 'last' and without 'all' to fetchAll = false.
C3_FlagsMatchSelector ==
    \A r \in Requests :
        (Arrived(r) /\ ValidSelector(req[r].y) /\ ~FormatRejected(req[r].format))
            => LET y == req[r].y
                   q == req[r].query
               IN  /\ Resolved(r)
                   /\ q.fetchAll <=> (y = <<>> \/ <<"a", "l", "l">> \in Range(y))
                   /\ q.lastYear <=> (<<"l", "a", "s", "t">> \in Range(y))
                   /\ y = <<>> => (q.fetchAll /\ q.years = <<>>)
                   /\ (<<"l", "a", "s", "t">> \in Range(y) /\ <<"a", "l", "l">> \notin Range(y))
                        => ~q.fetchAll

\* A selector of 'last' and a year resolved to lastYear without fetchAll.
C3_Witness ==
    \E r \in Requests :
        /\ Resolved(r)
        /\ req[r].y = << <<"l", "a", "s", "t">>, <<"2", "1">> >>
        /\ req[r].query.lastYear
        /\ ~req[r].query.fetchAll
        /\ req[r].query.years = <<21>>

NoDuplicates(s) == \A i, j \in 1..Len(s) : i # j => s[i] # s[j]

\* C4: for every valid selector the years of the resolved query are distinct
\* integers, also when a numeric token is repeated, and none of them comes
\* from an 'all' or 'last' token.
C4_YearsDistinct ==
    \A r \in Requests :
        Resolved(r)
            => /\ NoDuplicates(req[r].query.years)
               /\ Len(req[r].query.years)
                    <= Cardinality({ i \in 1..Len(req[r].y) : IsDigits(req[r].y[i]) })

\* A selector that repeats a year resolved to a years list that repeats it.
C4_RepeatedYearKept ==
    \E r \in Requests :
        /\ Resolved(r)
        /\ req[r].y = << <<"2", "1">>, <<"2", "1">> >>
        /\ req[r].query.years = <<21, 21>>

\* The two requests are the same request: username, format and y tokens.
SameRequest(a, b) == a.username = b.username /\ a.format = b.format /\ a.y = b.y

\* C5: for a fixed username and format, two valid selectors made of the same
\* tokens in a different order or with different repetition yield the same
\* cache key.
C5_EquivalentSelectorsShareKey ==
    \A r1, r2 \in Requests :
        (Resolved(r1) /\ Resolved(r2)
            /\ req[r1].username = req[r2].username
            /\ req[r1].format = req[r2].format
            /\ Range(req[r1].y) = Range(req[r2].y))
            => req[r1].key = req[r2].key

\* The answered request r came from the pipeline and was stored.
Stored(r) == req[r].pc = "done" /\ req[r].status = 200 /\ req[r].storedAt >= 0

\* C6 as stated: the same request twice inside one TTL window (here: the
\* whole run lies inside the first hour), both answered 200, makes one
\* pipeline execution in total and two identical responses.
C6_OnePipelineRunPerWindow ==
    \A r1, r2 \in Requests :
        (r1 # r2 /\ now < TTL
            /\ req[r1].pc = "done" /\ req[r1].status = 200
            /\ req[r2].pc = "done" /\ req[r2].status = 200
            /\ SameRequest(req[r1], req[r2]))
            => /\ req[r1].calls + req[r2].calls = 1
               /\ req[r1].body = req[r2].body

\* C6, amended: when the second request arrives after the first has been
\* answered from the pipeline, and less than one hour after that response
\* was stored, the second request is answered 200 from the cache without a
\* pipeline execution (one execution in total), with the first's response
\* unless another request of the same key stored its own since.
C6_SequentialIdempotence ==
    [][ \A r1, r2 \in Requests :
          (r1 # r2 /\ Stored(r1) /\ req[r1].calls = 1
              /\ req[r2].pc = "new" /\ req'[r2].pc # "new"
              /\ SameRequest(req[r1], req'[r2])
              /\ now < req[r1].storedAt + TTL)
              => /\ req'[r2].pc = "done"
                 /\ req'[r2].status = 200
                 /\ req[r1].calls + req'[r2].calls = 1
                 /\ \/ req'[r2].body = req[r1].body
                    \/ \E r3 \in Requests \ {r1, r2} :
                          /\ Stored(r3)
                          /\ req[r3].key = req[r1].key
                          /\ req[r3].storedAt >= req[r1].storedAt
                          /\ req'[r2].body = req[r3].body ]_vars

\* The second of two equal requests was answered from the record the first
\* had stored half an hour before.
C6_Witness ==
    \E r1, r2 \in Requests :
        /\ r1 # r2
        /\ Stored(r1) /\ req[r1].calls = 1 /\ req[r1].storedAt = 0
        /\ now = HalfHour
        /\ req[r2].pc = "done" /\ req[r2].status = 200 /\ req[r2].calls = 0
        /\ req[r2].saw = "live"
        /\ SameRequest(req[r1], req[r2])
        /\ req[r2].body = req[r1].body
        /\ cache[req[r2].key].expire = TTL

\* C7: a validated request that missed the cache and whose pipeline failed is
\* answered 404 with an {error} body iff the failure is a UserNotFoundError,
\* and 500 with an {error} body for every other failure; never 200.
C7_FailureStatus ==
    \A r \in Requests :
        req[r].threw # "none"
            => /\ req[r].pc = "done"
               /\ req[r].calls = 1
               /\ req[r].body.kind = "error"
               /\ req[r].status = 404 <=> req[r].threw = "UserNotFoundError"
               /\ req[r].threw \in {"RetrievalError", "ParseError"} => req[r].status = 500
               /\ req[r].status \in {404, 500}

\* One request failed with UserNotFoundError and got 404, two others failed
\* in retrieval and in parsing and both got 500.
C7_Witness ==
    \E r1, r2 \in Requests :
        /\ req[r1].threw = "UserNotFoundError" /\ req[r1].status = 404
        /\ req[r2].threw \in {"RetrievalError", "ParseError"} /\ req[r2].status = 500
        /\ req[r2].body = ErrorBody(UnableMessage(req[r2].username,
                                      PipelineError(req[r2].threw, req[r2].username)))

\* The step is request r's first one: from its arrival to its first response
\* or to the await.
Handles(r) == req[r].pc = "new" /\ req'[r].pc # "new"

\* The store holds an unexpired record under key k.
Unexpired(k) == k \in DOMAIN cache /\ cache[k].expire >= now

\* C8: in a validated request the query is resolved first, the cache is read
\* next, and the pipeline is invoked only on a miss; when the cache holds an
\* unexpired record under the request's key, the answer is 200 with exactly
\* the stored value and the pipeline is not invoked.
C8_HitShortCircuits ==
    /\ [] \A r \in Requests :
            /\ req[r].saw # "none"
                 => (req[r].key = CacheKey(req[r].username, req[r].query) /\ req[r].status # 400)
            /\ req[r].calls >= 1 => req[r].saw \in {"absent", "expired"}
    /\ [][ \A r \in Requests :
             (Handles(r) /\ req'[r].status # 400
                 /\ Unexpired(CacheKey(req'[r].username, req'[r].query)))
                 => /\ req'[r].pc = "done"
                    /\ req'[r].status = 200
                    /\ req'[r].body = cache[CacheKey(req'[r].username, req'[r].query)].value
                    /\ req'[r].calls = 0 ]_vars

\* A request was answered from the cache: 200, the stored value, no pipeline
\* call, while the request that had stored the value ran the pipeline.
C8_Witness ==
    \E r1, r2 \in Requests :
        /\ req[r2].saw = "live" /\ req[r2].pc = "done" /\ req[r2].status = 200
        /\ req[r2].calls = 0
        /\ req[r2].key \in DOMAIN cache
        /\ req[r2].body = cache[req[r2].key].value
        /\ Stored(r1) /\ req[r1].key = req[r2].key /\ req[r1].saw = "absent"

\* C9: every record is stored with a time to live of 3 600 000 ms; a request
\* that arrives after the record under its key has expired treats it as
\* absent, runs the pipeline and stores the new result; no request is
\* answered from a record older than one hour.
C9_OneHourTTL ==
    /\ [] \A k \in DOMAIN cache :
            \E r \in Requests :
                /\ Stored(r) /\ req[r].key = k
                /\ cache[k].value = req[r].body
                /\ cache[k].expire = req[r].storedAt + 3600000
    /\ [][ \A r \in Requests :
             LET k == req'[r].key
             IN  /\ (Handles(r) /\ k \in DOMAIN cache /\ now > cache[k].expire)
                     => (req'[r].pc = "awaiting" /\ req'[r].calls = 1)
                 /\ (Handles(r) /\ req'[r].status = 200)
                     => /\ k \in DOMAIN cache
                        /\ req'[r].body = cache[k].value
                        /\ now <= cache[k].expire
                        /\ \E r1 \in Requests :
                              /\ Stored(r1) /\ req[r1].key = k
                              /\ req[r1].body = req'[r].body
                              /\ now - req[r1].storedAt <= 3600000
                 /\ (req[r].pc = "awaiting" /\ req'[r].status = 200)
                     => (req[r].key \in DOMAIN cache'
                         /\ cache'[req[r].key] = [value |-> req'[r].body,
                                                  expire |-> now + 3600000]) ]_vars

\* A request found the record under its key expired (stored an hour and a
\* half before), ran the pipeline and stored the new result for an hour.
C9_Witness ==
    \E r1, r2 \in Requests :
        /\ r1 # r2
        /\ Stored(r1) /\ req[r1].storedAt = 0
        /\ req[r2].key = req[r1].key
        /\ req[r2].saw = "expired" /\ req[r2].calls = 1
        /\ Stored(r2) /\ req[r2].storedAt = 3 * HalfHour
        /\ cache[req[r2].key] = [value |-> req[r2].body, expire |-> 3 * HalfHour + TTL]

\* The step ends request r with a client or server error.
EndsInError(r) == req[r].pc # "done" /\ req'[r].pc = "done" /\ req'[r].status \in {400, 404, 500}

\* C10: records are created only on pipeline success: the step that ends a
\* request in 400, 404 or 500 leaves the cache as it is, a record is written
\* only by a request answered 200 from its pipeline call, the cache holds no
\* failure, and no request invokes the pipeline twice.
C10_NoNegativeCaching ==
    /\ [] \A r \in Requests : req[r].calls <= 1
    /\ [] \A k \in DOMAIN cache : cache[k].value.kind = "data"
    /\ [][ /\ \A r \in Requests : EndsInError(r) => cache' = cache
           /\ \A k \in DOMAIN cache' :
                (k \notin DOMAIN cache \/ cache'[k] # cache[k])
                    => \E r \in Requests :
                          /\ req[r].pc = "awaiting" /\ req[r].key = k
                          /\ req'[r].pc = "done" /\ req'[r].status = 200
                          /\ req'[r].calls = 1
                          /\ cache'[k].value = req'[r].body ]_vars

\* A request failed with 500, the cache holds nothing under its key, and the
\* same request, issued again, is running the pipeline.
C10_Witness ==
    \E r1, r2 \in Requests :
        /\ r1 < r2
        /\ req[r1].pc = "done" /\ req[r1].status = 500
        /\ req[r1].key \notin DOMAIN cache
        /\ SameRequest(req[r1], req[r2])
        /\ req[r2].pc = "awaiting" /\ req[r2].calls = 1 /\ req[r2].saw = "absent"

\* A year of request r failed, in retrieval or in parsing.
YearFailed(r) == \E i \in 1..Len(req[r].tasks) : req[r].tasks[i] \in ErrorConstructors

AllYearsOk(r) ==
    /\ req[r].tasks # <<>>
    /\ \A i \in 1..Len(req[r].tasks) : req[r].tasks[i] = "ok"

\* C11: when a single per-year retrieval or parse of a request fails, the
\* request gets no 200 and no data of the years that succeeded, and stores
\* nothing: every record of the cache is the result of a request all of
\* whose years ended well, whatever the order in which the years end.
C11_AllOrNothingJoin ==
    /\ \A r \in Requests :
          YearFailed(r)
              => /\ req[r].status # 200
                 /\ req[r].body.kind # "data"
                 /\ req[r].storedAt = -1
                 /\ req[r].pc = "done" => req[r].status \in {404, 500}
    /\ \A k \in DOMAIN cache :
          \E r \in Requests :
              /\ AllYearsOk(r)
              /\ Stored(r) /\ req[r].key = k /\ req[r].body = cache[k].value

\* The first year of a request ended well and the second failed: the
\* request was answered 500 and the cache holds nothing under its key.
C11_Witness ==
    \E r \in Requests :
        /\ req[r].query.years = <<21, 22>>
        /\ req[r].tasks = <<"ok", "ParseError">>
        /\ req[r].pc = "done" /\ req[r].status = 500
        /\ req[r].key \notin DOMAIN cache

\* Requests whose keys are compared with those of the requests of a run: a
\* username that ends like a key begins, a username that is a whole key, a
\* year written with a leading zero, and the empty format.
KeyProbes ==
    { [username |-> "u-{\"years\":[21,22],\"fetchAll\":false,\"lastYear\":false}",
       format |-> <<>>, y |-> <<>>],
      [username |-> "u-{\"years\":[21,22]", format |-> <<>>, y |-> <<>>],
      [username |-> "u", format |-> <<>>, y |-> << <<"0", "2", "1">>, <<"2", "2">> >>],
      [username |-> "u", format |-> <<"">>, y |-> << <<"2", "1">>, <<"2", "2">> >>],
      [username |-> "u-v", format |-> <<"nested">>, y |-> << <<"2", "1">>, <<"2", "2">> >>] }

\* The probes with the query each stands for and the key text it is given.
ProbeQuery(p) ==
    [years |-> QueryYears(p.y),
     fetchAll |-> p.y = <<>> \/ <<"a", "l", "l">> \in Range(p.y),
     lastYear |-> <<"l", "a", "s", "t">> \in Range(p.y),
     format |-> p.format]

ProbeKeys ==
    { [username |-> p.username, query |-> ProbeQuery(p),
       key |-> p.username \o "-" \o JSONStringify(ProbeQuery(p))] : p \in KeyProbes }

\* C12: every 200 response, fresh or from the cache, is the result of a
\* pipeline run made for the same username and the same resolved query
\* (years, fetchAll, lastYear, format); two different (username, query) pairs
\* never have the same key; and every record of the cache, also after
\* concurrent writes of one key, is a value computed for its own key.
C12_AnswerIsForOwnRequest ==
    /\ \A r \in Requests :
          req[r].status = 200
              => /\ req[r].body.kind = "data"
                 /\ req[r].body.username = req[r].username
                 /\ req[r].body.query = req[r].query
                 /\ req[r].query = [years |-> req[r].query.years,
                                    fetchAll |-> req[r].query.fetchAll,
                                    lastYear |-> req[r].query.lastYear,
                                    format |-> req[r].format]
    /\ \A r1, r2 \in Requests :
          (Resolved(r1) /\ Resolved(r2) /\ req[r1].key = req[r2].key)
              => (req[r1].username = req[r2].username /\ req[r1].query = req[r2].query)
    /\ \A r \in Requests, p \in ProbeKeys :
          (Resolved(r) /\ req[r].key = p.key)
              => (req[r].username = p.username /\ req[r].query = p.query)
    /\ \A k \in DOMAIN cache :
          /\ cache[k].value.kind = "data"
          /\ \E r \in Requests :
                /\ Resolved(r) /\ req[r].key = k
                /\ cache[k].value.username = req[r].username
                /\ cache[k].value.query = req[r].query

\* Requests of the two users with the same years and format each got the
\* result of a pipeline run of their own, stored under two keys.
C12_Witness ==
    \E r1, r2 \in Requests :
        /\ req[r1].username = "u" /\ req[r2].username = "u-v"
        /\ req[r1].y = req[r2].y /\ req[r1].format = req[r2].format
        /\ Stored(r1) /\ Stored(r2)
        /\ req[r1].key # req[r2].key
        /\ DOMAIN cache = {req[r1].key, req[r2].key}
        /\ cache[req[r1].key].value = req[r1].body
        /\ cache[req[r2].key].value = req[r2].body
        /\ req[r1].body # req[r2].body

\* Two requests of one key ran the pipeline concurrently and stored two
\* different results, the later over the earlier.
C12_OverwriteReached ==
    \E r1, r2 \in Requests :
        /\ r1 # r2
        /\ Stored(r1) /\ Stored(r2)
        /\ req[r1].calls = 1 /\ req[r2].calls = 1
        /\ req[r1].key = req[r2].key
        /\ req[r1].body # req[r2].body
        /\ cache[req[r1].key].value = req[r2].body

\* The pipeline call of request r has settled: fulfilled (its result was
\* stored) or rejected.
Settled(r) == req[r].storedAt >= 0 \/ req[r].threw # "none"

\* C13: a request gets at most one response on every path of the handler;
\* it has exactly one, with a status of 200, 400, 404 or 500, once the
\* handler has returned and in particular once its pipeline call has settled;
\* while the call has not settled the request has no response, whatever time
\* passes, and an answered request is never written to again.
C13_OneResponse ==
    /\ [] \A r \in Requests :
            /\ req[r].sent <= 1
            /\ req[r].sent = 1 <=> req[r].pc = "done"
            /\ req[r].sent = 1 <=> req[r].status \in {200, 400, 404, 500}
            /\ req[r].sent = 0 => (req[r].status = 0 /\ req[r].body = NoBody)
            /\ Settled(r) => req[r].sent = 1
            /\ (req[r].calls = 1 /\ ~Settled(r)) => (req[r].pc = "awaiting" /\ req[r].sent = 0)
    /\ [][ \A r \in Requests :
             /\ req[r].sent >= 1 => req'[r] = req[r]
             /\ (req[r].pc = "awaiting" /\ req'[r] # req[r])
                 => (req'[r].sent = 1 /\ (req'[r].storedAt >= 0 \/ req'[r].threw # "none")) ]_vars

\* An hour and a half after its arrival a request whose pipeline call has
\* not settled has no response, while a request that arrived with it and
\* whose call was rejected has its one response.
C13_Witness ==
    \E r1, r2 \in Requests :
        /\ now = 3 * HalfHour
        /\ req[r1].pc = "awaiting" /\ req[r1].calls = 1 /\ req[r1].sent = 0
        /\ req[r1].status = 0
        /\ req[r2].threw = "UserNotFoundError" /\ req[r2].sent = 1 /\ req[r2].status = 404

\* Request r read the cache and found no record it could return.
Missed(r) == req[r].saw \in {"absent", "expired"}

\* C14: a request served from the cache leaves the cache as it is, record
\* and expiry; a record is written only by a request that missed the cache
\* and whose pipeline call succeeded, and it expires one hour after that
\* write, whatever requests read it since.
C14_HitLeavesCacheUnchanged ==
    /\ [] \A k \in DOMAIN cache :
            \E w \in Requests :
                /\ Missed(w) /\ req[w].calls = 1 /\ Stored(w)
                /\ req[w].key = k
                /\ cache[k] = [value |-> req[w].body, expire |-> req[w].storedAt + TTL]
    /\ [][ /\ \A r \in Requests :
                (Handles(r) /\ req'[r].saw = "live")
                    => (cache' = cache /\ req'[r].storedAt = -1 /\ req'[r].calls = 0)
           /\ \A k \in DOMAIN cache' :
                (k \notin DOMAIN cache \/ cache'[k] # cache[k])
                    => \E w \in Requests :
                          /\ req[w].pc = "awaiting" /\ Missed(w) /\ req[w].key = k
                          /\ req'[w].status = 200 /\ req'[w].storedAt = now
                          /\ cache'[k].expire = now + TTL ]_vars

\* A record written at time 0 was read by a second request and still
\* expires one hour after the write, the clock standing at that hour.
C14_Witness ==
    \E w, r \in Requests :
        /\ w # r
        /\ Missed(w) /\ Stored(w) /\ req[w].storedAt = 0
        /\ req[r].saw = "live" /\ req[r].pc = "done" /\ req[r].key = req[w].key
        /\ req[r].storedAt = -1
        /\ now = TTL
        /\ cache[req[r].key] = [value |-> req[w].body, expire |-> TTL]

====
